---- MODULE Spec2Model ----
(***************************************************************************)
(* DiscoverScreen of src/App.js: the swipe / discovery session.            *)
(*                                                                         *)
(* The component keeps four pieces of React state (suggestions,            *)
(* currentIndex, loading, swiping) and two ref mirrors.  A state setter    *)
(* only enqueues the new value: the handlers load and doSwipe bound to the *)
(* buttons, and the load run by the [load] effect, are closures of the     *)
(* last committed render and read that render's loading / swiping.  The    *)
(* model therefore keeps the state as set (suggestions, ...), the state as *)
(* last rendered (view), and the passive effects the last commit left to   *)
(* run (effects).  Refs are written by effects only.                       *)
(***************************************************************************)
EXTENDS Integers, Sequences, FiniteSets, Bags, TLC

\* ---- bounds ----
NumCands == 2        \* candidate identities the backend can return
MaxLen == 2          \* longest batch the backend returns
MaxCalls == 2        \* backend calls outstanding at the same time

Cands == 1..NumCands

NoDup(s) == \A i, j \in 1..Len(s) : i # j => s[i] # s[j]

\* the batches GET /suggestions can answer with: identities are unique
\* within a batch
Batches == { s \in UNION { [1..n -> Cands] : n \in 0..MaxLen } : NoDup(s) }

VARIABLES
  suggestions,      \* useState([])      App.js:898, value last set
  currentIndex,     \* useState(0)       App.js:899, value last set
  loading,          \* useState(false)   App.js:900, value last set
  swiping,          \* useState(false)   App.js:901, value last set
  view,             \* the four values as of the last committed render
  suggestionsRef,   \* useRef([])        App.js:904
  currentIndexRef,  \* useRef(0)         App.js:905
  effects,          \* passive effects of the last commit still to run
  calls,            \* bag of the backend calls that are outstanding
  lastError,        \* an error alert Alert.alert(t('discover'), e.message)
                    \* was raised and the user has not dismissed it
  ev,               \* the handler step that ran last (observation only)
  session,          \* "active", "expired" once api.isAuthenticated is false,
                    \* "torn" once the navigator has unmounted the screen
  matched,          \* data.match of the swipe response handled by the last step
  matchAlert,       \* name in Alert.alert(t('itsAMatch'), ...) raised by the
                    \* last step, 0 when it raised none
  retryDue,         \* history: a load failed and the user has not called
                    \* load() since
  decided,          \* history: identities whose swipe was recorded since the
                    \* batch was received
  returned,         \* the suggestions array of the response the last step
                    \* read, <<0>> when it read none
  listSuggestions,  \* list screen of part_000: useState([])     part_000:554
  listLoading,      \* list screen of part_000: useState(false)  part_000:555
  listCalls,        \* list screen: bag of its outstanding calls
  listAlert         \* list screen: the alert its last step raised

\* the state of the screen and of its calls
core == <<suggestions, currentIndex, loading, swiping, view, suggestionsRef,
          currentIndexRef, effects, calls, lastError, ev>>

vars == <<suggestions, currentIndex, loading, swiping, view, suggestionsRef,
          currentIndexRef, effects, calls, lastError, ev, session, matched,
          matchAlert, retryDue, decided, returned, listSuggestions,
          listLoading, listCalls, listAlert>>

\* the state of the list screen of part_000
list == <<listSuggestions, listLoading, listCalls, listAlert>>

Init ==
  /\ suggestions = << >>
  /\ currentIndex = 0
  /\ loading = FALSE
  /\ swiping = FALSE
  /\ view = [suggestions |-> << >>, currentIndex |-> 0,
             loading |-> FALSE, swiping |-> FALSE]
  /\ suggestionsRef = << >>
  /\ currentIndexRef = 0
  /\ effects = {"syncSuggestions", "syncIndex", "load"}
  /\ calls = EmptyBag
  /\ lastError = FALSE
  /\ ev = "mount"
  /\ session = "active"
  /\ matched = FALSE
  /\ matchAlert = 0
  /\ retryDue = FALSE
  /\ decided = {}
  /\ returned = <<0>>
  /\ listSuggestions = << >>
  /\ listLoading = FALSE
  /\ listCalls = EmptyBag
  /\ listAlert = "none"

\* ---- helpers ----
\* the calls of bag cs with one more / one less call c
Issue(cs, c) == cs (+) SetToBag({c})
Answer(cs, c) == cs (-) SetToBag({c})
Outstanding == BagToSet(calls)

\* the call GET /suggestions of api.authFetch('/suggestions')
LoadCall == [kind |-> "load"]

\* the path built from the candidate the last render shows instead of the
\* one captured from the refs
SwipePathOfRender(currentUser, liked) ==
  [id |-> view.suggestions[view.currentIndex + 1], liked |-> liked]

\* path of POST /swipe/${currentUser.id}?liked=${liked}
SwipePath(currentUser, liked) == [id |-> currentUser, liked |-> liked]

\* an outstanding doSwipe: its locals idx and currentUser (suggs is not read
\* after currentUser is taken from it), the request it sent, and the
\* loading / swiping values of the render whose load it holds
SwipeCall(idx, currentUser, liked, closure) ==
  [kind |-> "swipe", idx |-> idx, currentUser |-> currentUser,
   path |-> SwipePath(currentUser, liked), closure |-> closure]

\* const currentProfile = suggestions[currentIndex] of a render; JS indexes
\* from 0, a TLA+ sequence from 1
HasProfile(v) == v.currentIndex < Len(v.suggestions)

\* const currentUser = suggs[idx]
CurrentUser(idx, suggs) == suggs[idx + 1]

\* the loading / swiping values a callback created by render v closes over
Closure(v) == [swiping |-> v.swiping, loading |-> v.loading]

\* if (swiping || loading) return [];
LoadDropped(cl) == cl.swiping \/ cl.loading

\* if (swiping || loading) return;
SwipeDropped(cl) == cl.swiping \/ cl.loading

\* if (idx >= suggs.length) return;
NoTarget(idx, suggs) == idx >= Len(suggs)

\* nextIndex < suggestionsRef.current.length
HasNext(nextIndex) == nextIndex < Len(suggestionsRef)

\* ---- load: the synchronous part up to the first await ----
\* cl is the closure of the load that is called, cs the outstanding calls at
\* the time of the call
Load(cl, cs, op) ==
  IF LoadDropped(cl)
  THEN /\ loading' = loading
       /\ calls' = cs
       /\ ev' = op \o "Dropped"
  ELSE /\ BagCardinality(cs) < MaxCalls
       /\ loading' = TRUE
       /\ calls' = Issue(cs, LoadCall)
       /\ ev' = op

\* ---- React: commit of a render, and the passive effects after it ----
Render ==
  /\ effects = {}
  /\ <<suggestions, currentIndex, loading, swiping>> #
       <<view.suggestions, view.currentIndex, view.loading, view.swiping>>
  /\ view' = [suggestions |-> suggestions, currentIndex |-> currentIndex,
              loading |-> loading, swiping |-> swiping]
  /\ effects' =
       (IF suggestions # view.suggestions THEN {"syncSuggestions"} ELSE {})
       \cup (IF currentIndex # view.currentIndex THEN {"syncIndex"} ELSE {})
       \cup (IF loading # view.loading \/ swiping # view.swiping
             THEN {"load"} ELSE {})
  /\ ev' = "render"
  /\ UNCHANGED <<suggestions, currentIndex, loading, swiping, suggestionsRef,
                 currentIndexRef, calls, lastError>>

RunEffects ==
  /\ effects # {}
  /\ suggestionsRef' = IF "syncSuggestions" \in effects
                       THEN view.suggestions ELSE suggestionsRef
  /\ currentIndexRef' = IF "syncIndex" \in effects
                        THEN view.currentIndex ELSE currentIndexRef
  /\ effects' = {}
  /\ IF "load" \in effects
     THEN Load(Closure(view), calls, "effectLoad")
     ELSE /\ UNCHANGED <<loading, calls>>
          /\ ev' = "effects"
  /\ UNCHANGED <<suggestions, currentIndex, swiping, view, lastError>>

\* ---- the user ----
\* the reload button is rendered when !loading && !currentProfile
TapReload ==
  /\ ~view.loading
  /\ ~HasProfile(view)
  /\ Load(Closure(view), calls, "load")
  /\ UNCHANGED <<suggestions, currentIndex, swiping, view, suggestionsRef,
                 currentIndexRef, effects, lastError>>

\* the like / dislike buttons are rendered when !loading && currentProfile
\* and are disabled while swiping
DoSwipe(liked) ==
  /\ ~view.loading
  /\ HasProfile(view)
  /\ ~view.swiping
  /\ LET idx == currentIndexRef
         suggs == suggestionsRef
     IN IF SwipeDropped(Closure(view)) \/ NoTarget(idx, suggs)
        THEN /\ UNCHANGED <<swiping, calls>>
             /\ ev' = "doSwipeDropped"
        ELSE /\ BagCardinality(calls) < MaxCalls
             /\ swiping' = TRUE
             /\ calls' = Issue(calls, SwipeCall(idx, CurrentUser(idx, suggs),
                                                liked, Closure(view)))
             /\ ev' = "doSwipe"
  /\ UNCHANGED <<suggestions, currentIndex, loading, view, suggestionsRef,
                 currentIndexRef, effects, lastError>>

\* the OK button of the error alert
DismissAlert ==
  /\ lastError
  /\ lastError' = FALSE
  /\ ev' = "dismiss"
  /\ UNCHANGED <<suggestions, currentIndex, loading, swiping, view,
                 suggestionsRef, currentIndexRef, effects, calls>>

\* ---- the backend answers call c ----
\* the array of the response written back to front
NewSuggestionsReversed(data) ==
  [i \in 1..Len(data) |-> data[Len(data) + 1 - i]]

\* newSuggestions = Array.isArray(data?.suggestions) ? data.suggestions : []
\* for a response whose suggestions field is the array data
NewSuggestions(data) == data

LoadOk(c, data) ==
  /\ c.kind = "load"
  /\ suggestions' = NewSuggestions(data)
  /\ currentIndex' = 0
  /\ loading' = FALSE
  /\ calls' = Answer(calls, c)
  /\ ev' = "loadOk"
  /\ UNCHANGED <<swiping, view, suggestionsRef, currentIndexRef, effects,
                 lastError>>

\* !res.ok, a rejected fetch, or a body res.json() cannot parse
LoadFail(c) ==
  /\ c.kind = "load"
  /\ lastError' = TRUE
  /\ loading' = FALSE
  /\ calls' = Answer(calls, c)
  /\ ev' = "loadFail"
  /\ UNCHANGED <<suggestions, currentIndex, swiping, view, suggestionsRef,
                 currentIndexRef, effects>>

\* const nextIndex = idx + 1;
NextIndex(c) == c.idx + 1

\* setCurrentIndex(nextIndex); setSwiping(false);
SwipeAdvance(c) ==
  /\ currentIndex' = NextIndex(c)
  /\ swiping' = FALSE
  /\ calls' = Answer(calls, c)
  /\ ev' = "swipeAdvance"
  /\ UNCHANGED <<suggestions, loading, lastError>>

\* the end of the deck without the reload: the cursor moves past the batch
SwipeEndExhausted(c) ==
  /\ currentIndex' = NextIndex(c)
  /\ swiping' = FALSE
  /\ calls' = Answer(calls, c)
  /\ ev' = "swipeEndLoad"
  /\ UNCHANGED <<suggestions, loading, lastError>>

\* setSwiping(false); await load();   load is the one doSwipe closed over
SwipeEnd(c) ==
  /\ swiping' = FALSE
  /\ Load(c.closure, Answer(calls, c), "swipeEndLoad")
  /\ UNCHANGED <<suggestions, currentIndex, lastError>>

SwipeOk(c) ==
  /\ c.kind = "swipe"
  /\ IF HasNext(NextIndex(c)) THEN SwipeAdvance(c) ELSE SwipeEnd(c)
  /\ UNCHANGED <<view, suggestionsRef, currentIndexRef, effects>>

SwipeFail(c) ==
  /\ c.kind = "swipe"
  /\ lastError' = TRUE
  /\ swiping' = FALSE
  /\ calls' = Answer(calls, c)
  /\ ev' = "swipeFail"
  /\ UNCHANGED <<suggestions, currentIndex, loading, view, suggestionsRef,
                 currentIndexRef, effects>>

\* ---- the screen while the user stays signed in ----
\* session stays "active"; the match alert and the history variables are not
\* followed
Quiet ==
  UNCHANGED <<session, matched, matchAlert, retryDue, decided, returned, list>>

Next ==
  \/ Render /\ Quiet
  \/ RunEffects /\ Quiet
  \/ TapReload /\ Quiet
  \/ \E liked \in BOOLEAN : DoSwipe(liked) /\ Quiet
  \/ DismissAlert /\ Quiet
  \/ \E c \in Outstanding, data \in Batches : LoadOk(c, data) /\ Quiet
  \/ \E c \in Outstanding : LoadFail(c) /\ Quiet
  \/ \E c \in Outstanding : SwipeOk(c) /\ Quiet
  \/ \E c \in Outstanding : SwipeFail(c) /\ Quiet

Spec == Init /\ [][Next]_vars

\* ---- the match alert of doSwipe ----
\* the alert raised for a swipe response that carries the flag of the live
\* cursor's candidate instead of the captured one
MatchAlertOfCursor(c, match) ==
  IF match /\ currentIndexRef < Len(suggestionsRef)
  THEN suggestionsRef[currentIndexRef + 1] ELSE 0

\* if (data.match) Alert.alert(t('itsAMatch'), `${currentUser.name}!`): the
\* name of the alert raised for the response of call c, 0 for none
MatchAlert(c, match) == IF match THEN c.currentUser ELSE 0

\* the response of call c was read with data.match = match
HandleMatch(c, match) ==
  /\ matched' = match
  /\ matchAlert' = MatchAlert(c, match)
  /\ UNCHANGED <<session, retryDue, decided, returned, list>>

\* a step that reads no swipe response raises no match alert
NoMatch ==
  /\ matched' = FALSE
  /\ matchAlert' = 0
  /\ UNCHANGED <<session, retryDue, decided, returned, list>>

NextMatch ==
  \/ Render /\ NoMatch
  \/ RunEffects /\ NoMatch
  \/ TapReload /\ NoMatch
  \/ \E liked \in BOOLEAN : DoSwipe(liked) /\ NoMatch
  \/ DismissAlert /\ NoMatch
  \/ \E c \in Outstanding, data \in Batches : LoadOk(c, data) /\ NoMatch
  \/ \E c \in Outstanding : LoadFail(c) /\ NoMatch
  \/ \E c \in Outstanding, match \in BOOLEAN : SwipeOk(c) /\ HandleMatch(c, match)
  \/ \E c \in Outstanding : SwipeFail(c) /\ NoMatch

SpecMatch == Init /\ [][NextMatch]_vars

\* ---- history of the loads and of the recorded swipes ----
\* retryDue becomes r and decided becomes d
Hist(r, d) ==
  /\ retryDue' = r
  /\ decided' = d
  /\ UNCHANGED <<session, matched, matchAlert, returned, list>>

NextHist ==
  \/ Render /\ Hist(retryDue, decided)
  \/ RunEffects /\ Hist(retryDue, decided)
  \/ TapReload /\ Hist(FALSE, decided)
  \/ \E liked \in BOOLEAN : DoSwipe(liked) /\ Hist(retryDue, decided)
  \/ DismissAlert /\ Hist(retryDue, decided)
  \/ \E c \in Outstanding, data \in Batches : LoadOk(c, data) /\ Hist(FALSE, {})
  \/ \E c \in Outstanding : LoadFail(c) /\ Hist(TRUE, decided)
  \/ \E c \in Outstanding :
       SwipeOk(c) /\ Hist(retryDue, decided \cup {c.currentUser})
  \/ \E c \in Outstanding : SwipeFail(c) /\ Hist(retryDue, decided)

SpecHist == Init /\ [][NextHist]_vars

\* ---- sign-out, 401 and the unmount of the screen ----
\* the match alert and the history variables are not followed
Held == UNCHANGED <<matched, matchAlert, retryDue, decided, returned, list>>

\* api.logout(): setIsAuthenticated(false); the screen is still mounted
Logout ==
  /\ session = "active"
  /\ session' = "expired"
  /\ ev' = "logout"
  /\ UNCHANGED <<suggestions, currentIndex, loading, swiping, view,
                 suggestionsRef, currentIndexRef, effects, calls, lastError>>

\* the navigator is keyed on api.isAuthenticated and on the theme: when the
\* key changes the screen is unmounted, with its calls still outstanding
Unmount ==
  /\ session # "torn"
  /\ session' = "torn"
  /\ ev' = "unmount"
  /\ UNCHANGED <<suggestions, currentIndex, loading, swiping, view,
                 suggestionsRef, currentIndexRef, effects, calls, lastError>>

\* GET /suggestions answers 401: authFetch clears token, isAuthenticated and
\* userId, raises the sessionExpired alert and returns res; res.ok is false,
\* so load goes on as for any failed call
Load401(c) ==
  /\ LoadFail(c)
  /\ session' = "expired"

\* POST /swipe answers 401: the same in doSwipe
Swipe401(c) ==
  /\ SwipeFail(c)
  /\ session' = "expired"

\* load() called by an unmounted doSwipe: setLoading is without effect
LoadUnmounted(cl, cs, op) ==
  IF LoadDropped(cl)
  THEN /\ calls' = cs
       /\ ev' = op \o "Dropped"
  ELSE /\ BagCardinality(cs) < MaxCalls
       /\ calls' = Issue(cs, LoadCall)
       /\ ev' = op

\* the continuations of load and doSwipe after the unmount: the state
\* setters are without effect, Alert.alert and load() are not
LoadOkUnmounted(c) ==
  /\ c.kind = "load"
  /\ calls' = Answer(calls, c)
  /\ ev' = "loadOk"
  /\ UNCHANGED <<suggestions, currentIndex, loading, swiping, view,
                 suggestionsRef, currentIndexRef, effects, lastError>>

LoadFailUnmounted(c) ==
  /\ c.kind = "load"
  /\ lastError' = TRUE
  /\ calls' = Answer(calls, c)
  /\ ev' = "loadFail"
  /\ UNCHANGED <<suggestions, currentIndex, loading, swiping, view,
                 suggestionsRef, currentIndexRef, effects>>

SwipeOkUnmounted(c) ==
  /\ c.kind = "swipe"
  /\ IF HasNext(NextIndex(c))
     THEN /\ calls' = Answer(calls, c)
          /\ ev' = "swipeAdvance"
     ELSE LoadUnmounted(c.closure, Answer(calls, c), "swipeEndLoad")
  /\ UNCHANGED <<suggestions, currentIndex, loading, swiping, view,
                 suggestionsRef, currentIndexRef, effects, lastError>>

SwipeFailUnmounted(c) ==
  /\ c.kind = "swipe"
  /\ lastError' = TRUE
  /\ calls' = Answer(calls, c)
  /\ ev' = "swipeFail"
  /\ UNCHANGED <<suggestions, currentIndex, loading, swiping, view,
                 suggestionsRef, currentIndexRef, effects>>

NextTeardown ==
  \/ session # "torn" /\ Render /\ Quiet
  \/ session # "torn" /\ RunEffects /\ Quiet
  \/ session # "torn" /\ TapReload /\ Quiet
  \/ \E liked \in BOOLEAN : session # "torn" /\ DoSwipe(liked) /\ Quiet
  \/ DismissAlert /\ Quiet
  \/ \E c \in Outstanding, data \in Batches :
       session # "torn" /\ LoadOk(c, data) /\ Quiet
  \/ \E c \in Outstanding : session # "torn" /\ LoadFail(c) /\ Quiet
  \/ \E c \in Outstanding : session # "torn" /\ SwipeOk(c) /\ Quiet
  \/ \E c \in Outstanding : session # "torn" /\ SwipeFail(c) /\ Quiet
  \/ Logout /\ Held
  \/ Unmount /\ Held
  \/ \E c \in Outstanding : session # "torn" /\ Load401(c) /\ Held
  \/ \E c \in Outstanding : session # "torn" /\ Swipe401(c) /\ Held
  \/ \E c \in Outstanding : session = "torn" /\ LoadOkUnmounted(c) /\ Quiet
  \/ \E c \in Outstanding : session = "torn" /\ LoadFailUnmounted(c) /\ Quiet
  \/ \E c \in Outstanding : session = "torn" /\ SwipeOkUnmounted(c) /\ Quiet
  \/ \E c \in Outstanding : session = "torn" /\ SwipeFailUnmounted(c) /\ Quiet

SpecTeardown == Init /\ [][NextTeardown]_vars

\* ---- the arrays the backend returns ----
\* the step read the array data from a response
Read(data) ==
  /\ returned' = data
  /\ UNCHANGED <<session, matched, matchAlert, retryDue, decided, list>>

\* the step read no array
ReadNone ==
  /\ returned' = <<0>>
  /\ UNCHANGED <<session, matched, matchAlert, retryDue, decided, list>>

NextBatch ==
  \/ Render /\ ReadNone
  \/ RunEffects /\ ReadNone
  \/ TapReload /\ ReadNone
  \/ \E liked \in BOOLEAN : DoSwipe(liked) /\ ReadNone
  \/ DismissAlert /\ ReadNone
  \/ \E c \in Outstanding, data \in Batches : LoadOk(c, data) /\ Read(data)
  \/ \E c \in Outstanding : LoadFail(c) /\ ReadNone
  \/ \E c \in Outstanding : SwipeOk(c) /\ ReadNone
  \/ \E c \in Outstanding : SwipeFail(c) /\ ReadNone

SpecBatch == Init /\ [][NextBatch]_vars

\* ---- the screen under React's scheduling ----
\* React commits a scheduled render and runs the passive effects of a commit;
\* nothing makes the backend answer or the user tap
SpecFair ==
  /\ Init
  /\ [][Next]_vars
  /\ WF_vars(Render /\ Quiet)
  /\ WF_vars(RunEffects /\ Quiet)

\* ---- the list screen of part_000 ----
\* load and doSwipe of this screen have no guard and share the one flag
\* loading; the swipe screen of App.js is left as it is
Main ==
  UNCHANGED <<core, session, matched, matchAlert, retryDue, decided, returned>>

ListOutstanding == BagToSet(listCalls)

\* the ids of the cards the list shows
ListIds == { listSuggestions[i] : i \in 1..Len(listSuggestions) }

\* load up to its await, called by the mount effect or by the refresh button
ListLoad ==
  /\ BagCardinality(listCalls) < MaxCalls
  /\ listLoading' = TRUE
  /\ listCalls' = Issue(listCalls, LoadCall)
  /\ listAlert' = "none"
  /\ UNCHANGED listSuggestions

\* doSwipe(id, liked) up to its await, called by the buttons of card id
ListDoSwipe(id, liked) ==
  /\ BagCardinality(listCalls) < MaxCalls
  /\ listLoading' = TRUE
  /\ listCalls' = Issue(listCalls, [kind |-> "swipe", path |-> SwipePath(id, liked)])
  /\ listAlert' = "none"
  /\ UNCHANGED listSuggestions

\* GET /suggestions answers with the array data; finally setLoading(false),
\* also in the doSwipe that awaits this load
ListLoadOk(c, data) ==
  /\ c.kind = "load"
  /\ listSuggestions' = data
  /\ listAlert' = IF Len(data) = 0 THEN "Suggesties" ELSE "none"
  /\ listLoading' = FALSE
  /\ listCalls' = Answer(listCalls, c)

ListLoadFail(c) ==
  /\ c.kind = "load"
  /\ listAlert' = "Fout bij ophalen suggesties"
  /\ listLoading' = FALSE
  /\ listCalls' = Answer(listCalls, c)
  /\ UNCHANGED listSuggestions

\* POST /swipe succeeds: the alert, then await load()
ListSwipeOk(c) ==
  /\ c.kind = "swipe"
  /\ listAlert' = "Swipe"
  /\ listLoading' = TRUE
  /\ listCalls' = Issue(Answer(listCalls, c), LoadCall)
  /\ UNCHANGED listSuggestions

ListSwipeFail(c) ==
  /\ c.kind = "swipe"
  /\ listAlert' = "Fout bij swipen"
  /\ listLoading' = FALSE
  /\ listCalls' = Answer(listCalls, c)
  /\ UNCHANGED listSuggestions

NextList ==
  \/ ListLoad /\ Main
  \/ \E id \in ListIds, liked \in BOOLEAN : ListDoSwipe(id, liked) /\ Main
  \/ \E c \in ListOutstanding, data \in Batches : ListLoadOk(c, data) /\ Main
  \/ \E c \in ListOutstanding : ListLoadFail(c) /\ Main
  \/ \E c \in ListOutstanding : ListSwipeOk(c) /\ Main
  \/ \E c \in ListOutstanding : ListSwipeFail(c) /\ Main

SpecList == Init /\ [][NextList]_vars

\* ---- the session as the specification names it ----
batch == suggestions
cursor == currentIndex
Busy == loading \/ swiping
InFlight == BagCardinality(calls)
LoadsInFlight == CopiesIn(LoadCall, calls)

\* the steps that call load() or doSwipe(): accepted, or dropped by a guard
EntryOps == {"load", "loadDropped", "effectLoad", "effectLoadDropped",
             "doSwipe", "doSwipeDropped"}
\* the steps in which the record-decision call of a doSwipe succeeds
SwipeOkOps == {"swipeAdvance", "swipeEndLoad", "swipeEndLoadDropped"}

\* C1: at most one backend call issued by load or doSwipe is outstanding
C1_AtMostOneInFlight == InFlight <= 1

\* C2: the cursor stays within the batch, 0 <= cursor <= length(batch)
C2_CursorInRange == 0 <= cursor /\ cursor <= Len(batch)

\* C3: a call of load() or doSwipe() made while busy changes neither batch,
\* cursor, busy, lastError nor the outstanding calls
C3_NoOpWhileBusy ==
  [][(Busy /\ ev' \in EntryOps)
       => UNCHANGED <<suggestions, currentIndex, loading, swiping, lastError,
                      calls>>]_vars

\* C4: busy is true exactly while one operation is in flight
C4_BusyIffOneInFlight ==
  /\ Busy => InFlight = 1
  /\ InFlight >= 1 => Busy

\* a doSwipe whose call is answered in this step
Answered(c) == c.kind = "swipe" /\ CopiesIn(c, calls') < CopiesIn(c, calls)

\* C5: the record-decision call of a doSwipe carries the identity of the
\* candidate captured from the refs when the call was accepted, and keeps it
\* while batch and cursor are reset under it
C5_Snapshot ==
  [][\A c \in BagToSet(calls') :
       c.kind = "swipe"
         => /\ c.path.id = c.currentUser
            /\ CopiesIn(c, calls') > CopiesIn(c, calls)
                 => c.currentUser = suggestionsRef[currentIndexRef + 1]]_vars

\* a doSwipe for candidate X is in flight, a load has just replaced the batch
\* and the candidate at the new cursor is not X
C5_Witness ==
  /\ ev = "loadOk"
  /\ cursor < Len(batch)
  /\ \E c \in Outstanding :
       c.kind = "swipe" /\ c.path.id = c.currentUser
                        /\ batch[cursor + 1] # c.currentUser

\* C6: a decide that succeeds on a candidate that is not the last of the
\* batch advances the cursor by exactly one within the same batch
C6_AdvanceByOne ==
  [][(ev' \in SwipeOkOps /\ cursor + 1 < Len(batch))
       => /\ cursor' = cursor + 1
          /\ batch' = batch]_vars

\* C7 as claimed: a decide that succeeds on the last candidate of the batch
\* leaves the session Exhausted (cursor = length(batch), batch unchanged and
\* not empty, not busy)
C7_Exhausted ==
  [][(ev' \in SwipeOkOps /\ cursor + 1 = Len(batch))
       => /\ cursor' = Len(batch')
          /\ batch' = batch
          /\ batch' # << >>
          /\ ~Busy']_vars

\* C7 as amended: a doSwipe that succeeds with no next candidate in the
\* mirrored batch (idx + 1 >= suggestionsRef.current.length) leaves cursor
\* and batch as they are, clears swiping and issues GET /suggestions itself,
\* with loading set
C7_EndOfDeckReloads ==
  [][\A c \in Outstanding :
       (ev' \in SwipeOkOps /\ Answered(c)
          /\ c.idx + 1 >= Len(suggestionsRef))
         => /\ cursor' = cursor
            /\ batch' = batch
            /\ ~swiping'
            /\ loading'
            /\ CopiesIn(LoadCall, calls') = LoadsInFlight + 1]_vars

\* a doSwipe has just succeeded on the last candidate: the cursor still
\* points at it and the reload is in flight
C7_Witness ==
  /\ ev = "swipeEndLoad"
  /\ batch # << >>
  /\ cursor + 1 = Len(batch)
  /\ loading
  /\ ~swiping
  /\ LoadsInFlight = 1

\* C8: a decide whose record-decision call fails leaves cursor and batch
\* unchanged, raises the error and ends with busy false
C8_DecideFailure ==
  [][ev' = "swipeFail"
       => /\ cursor' = cursor
          /\ batch' = batch
          /\ lastError'
          /\ ~Busy']_vars

\* C9: a refill that succeeds replaces the batch, resets the cursor to 0,
\* clears lastError and ends with busy false; the current candidate is the
\* first element of a non-empty result
C9_RefillSuccess ==
  [][ev' = "loadOk"
       => /\ batch' \in Batches
          /\ cursor' = 0
          /\ ~lastError'
          /\ ~Busy']_vars

\* C10: a refill whose list-candidates call fails leaves batch and cursor as
\* they were, raises the error and ends with busy false
C10_RefillFailure ==
  [][ev' = "loadFail"
       => /\ batch' = batch
          /\ cursor' = cursor
          /\ lastError'
          /\ ~Busy']_vars

\* C11: doSwipe called while the session has no current candidate (cursor =
\* length(batch)) changes neither batch nor cursor, issues no call and
\* reports no error
C11_NoOpWithoutCandidate ==
  [][(ev' \in {"doSwipe", "doSwipeDropped"} /\ cursor >= Len(batch))
       => UNCHANGED <<suggestions, currentIndex, calls, lastError>>]_vars

\* C14: whatever the backend answers, the operation of load or doSwipe that
\* handles the answer resolves and leaves busy = false
C14_ResolvesNotBusy ==
  [][ev' \in {"loadOk", "loadFail", "swipeAdvance", "swipeFail"}
       => ~Busy']_vars

\* C15: a load that succeeds with the empty sequence leaves an empty batch,
\* cursor 0, no current candidate, busy false and no match alert, and a load
\* the user calls on an empty batch that is not busy is accepted and issues
\* GET /suggestions
C15_EmptyRefill ==
  [][/\ (ev' = "loadOk" /\ batch' = << >>)
          => cursor' = 0 /\ ~Busy' /\ matchAlert' = 0
     /\ (ev' \in {"load", "loadDropped"} /\ batch = << >> /\ ~Busy)
          => /\ ev' = "load"
             /\ CopiesIn(LoadCall, calls') = LoadsInFlight + 1]_vars

C12_NoAutomaticRetry ==
  [][retryDue => ev' # "effectLoad"]_vars

\* C18: a candidate whose swipe was recorded is not the current candidate of
\* its batch again once the session is at rest, also when the load that
\* follows the last candidate fails
C18_DecidedOnce ==
  (~Busy /\ cursor < Len(batch)) => batch[cursor + 1] \notin decided

C16_ExpiryNotAnError ==
  [][(session = "active" /\ session' = "expired"
        /\ ev' \in {"loadFail", "swipeFail"})
       => lastError' = lastError]_vars

\* C17: once the screen is unmounted, the completion of a call of load or
\* doSwipe changes none of batch, cursor, busy and lastError
C17_NoApplyAfterTeardown ==
  [][session = "torn"
       => UNCHANGED <<suggestions, currentIndex, loading, swiping,
                      lastError>>]_vars

\* C20: no soft-lock: a load() the user calls while the session is not busy
\* (after a failure and at the end of the deck included) is accepted and
\* issues GET /suggestions
C20_ReloadAccepted ==
  [][(~Busy /\ ev' \in {"load", "loadDropped"})
       => /\ ev' = "load"
          /\ CopiesIn(LoadCall, calls') = LoadsInFlight + 1]_vars

\* C21: a call that never resolves is handled like a rejected one: a busy
\* session always comes back to busy = false (behaviours that fill the bound
\* MaxCalls of the model are left aside)
C21_UnresolvedEndsErrored == Busy ~> (~Busy \/ InFlight = MaxCalls)

\* the candidate of call c is the last entry of the batch
OnLast(c) == c.idx + 1 = Len(batch) /\ batch[c.idx + 1] = c.currentUser

\* C22: a doSwipe whose POST succeeds on the last candidate of the batch
\* clears swiping and calls load(), whose guard does not drop the call: GET
\* /suggestions is issued automatically
C22_EndOfDeckAlwaysReloads ==
  [][\A c \in Outstanding :
       (ev' \in SwipeOkOps /\ Answered(c) /\ OnLast(c))
         => /\ ev' = "swipeEndLoad"
            /\ ~swiping'
            /\ loading'
            /\ CopiesIn(LoadCall, calls') = LoadsInFlight + 1]_vars

\* C23: once isAuthenticated was cleared (the sign-out of a 401), the
\* completion of a load or doSwipe that was in flight changes neither batch
\* nor cursor
C23_AbandonedAfterSignOut ==
  [][(session = "expired" /\ calls' # calls)
       => UNCHANGED <<suggestions, currentIndex>>]_vars

\* C24: the batch changes only in the step in which a load succeeds, and is
\* then the array the backend returned, in the backend's order; no step of
\* doSwipe changes the batch
C24_BatchOnlyByRefill ==
  [][/\ batch' # batch => ev' = "loadOk"
     /\ ev' = "loadOk" => batch' = returned'
     /\ ev' \in {"doSwipe", "doSwipeDropped", "swipeFail"} \cup SwipeOkOps
          => batch' = batch]_vars

\* a load replaced a batch by an array of two candidates while a swipe is
\* outstanding
C24_Witness ==
  /\ ev = "loadOk"
  /\ Len(batch) = 2
  /\ batch = returned
  /\ \E c \in Outstanding : c.kind = "swipe"

\* the steps taken by the user
UserOps == {"load", "loadDropped", "doSwipe", "doSwipeDropped", "dismiss"}

\* no call is outstanding and none is about to be issued: every state change
\* is rendered and the effects of the last commit have run
Quiescent ==
  /\ InFlight = 0
  /\ effects = {}
  /\ view = [suggestions |-> suggestions, currentIndex |-> currentIndex,
             loading |-> loading, swiping |-> swiping]

\* C25: when the user stops acting and the backend answers every call, the
\* session comes to rest: from some point on no call is outstanding and none
\* is about to be issued
C25_Quiescence ==
  ([]<>(InFlight = 0) /\ <>[](ev \notin UserOps)) => <>[]Quiescent

\* C26: the cursor moves past an entry of the current batch only in a step
\* after which the swipe of that entry is recorded: no candidate is skipped
\* undecided, also when the answer arrives after the batch was replaced
C26_NoSkip ==
  [][cursor' > cursor
       => \A i \in cursor..(cursor' - 1) :
            i < Len(batch) => batch[i + 1] \in decided']_vars

\* C27: when a doSwipe is accepted, the candidate it takes from the refs is
\* the candidate the last render displays: the refs are not stale
C27_RefsFresh ==
  [][ev' = "doSwipe"
       => /\ HasProfile(view)
          /\ CurrentUser(currentIndexRef, suggestionsRef)
               = CurrentUser(view.currentIndex, view.suggestions)]_vars

\* C28: an unmounted screen starts no backend call: no step taken after the
\* unmount adds a call to the outstanding ones
C28_NoCallAfterTeardown ==
  [][session = "torn"
       => \A c \in BagToSet(calls') : CopiesIn(c, calls') <= CopiesIn(c, calls)]_vars

\* C29: loading and swiping are never true at the same time
C29_FlagsExclusive == ~(loading /\ swiping)

\* C30: in the list screen of part_000, loading is true in every state in
\* which a /suggestions or /swipe request of load or doSwipe is outstanding
C30_ListLoadingWhileOutstanding ==
  BagCardinality(listCalls) > 0 => listLoading

====
